---- MODULE Spec2Model ----
(***************************************************************************)
(* A model of app.py: the Streamlit page main() and the class               *)
(* SystemPromptInfluenceAnalyzer.                                           *)
(*                                                                         *)
(* Streamlit runs main() from the top on every interaction.  A change of a *)
(* widget (the sidebar key, an upload) runs it with st.button(...) False;  *)
(* a press of the button runs it with st.button(...) True.  One action of  *)
(* the model is one such run.  Python str values that the code decodes or  *)
(* formats character by character are sequences of Unicode code points;    *)
(* uploaded files are sequences of bytes; messages and service texts that  *)
(* the code only passes on are TLA+ strings.                               *)
(***************************************************************************)
EXTENDS Integers, Sequences, FiniteSets, TLC

(* Bounds of the model. *)
MaxFileLen == 2
MaxClicks == 2

(* Python's None, where a str is expected (the environment variable). *)
None == "<None>"

(* Python's None, where an object is expected (a return value). *)
PyNone == [py |-> "None"]

(* The bytes uploaded files are made of: "{" (0x7B), and the two bytes of  *)
(* U+00A7 in UTF-8 (0xC2 0xA7), which are invalid alone or out of order.   *)
ByteAlphabet == {123, 194, 167}

RECURSIVE ByteStrings(_)
ByteStrings(n) ==
    IF n = 0 THEN {<<>>}
    ELSE LET shorter == ByteStrings(n - 1)
         IN  shorter \cup {Append(s, b) : s \in {t \in shorter : Len(t) = n - 1},
                                          b \in ByteAlphabet}

(* What st.file_uploader returns: None (NoFile), or an UploadedFile whose  *)
(* bytes getvalue() gives.  An UploadedFile is truthy whatever its length. *)
NoFile == [uploaded |-> FALSE]

UploadedFiles == {[uploaded |-> TRUE, bytes |-> b] : b \in ByteStrings(MaxFileLen)}

FileUploaderValues == {NoFile} \cup UploadedFiles

(* What st.sidebar.text_input returns: "" when left blank. *)
ApiKeyInputs == {"", "sk-ui"}

(* os.getenv('ANTHROPIC_API_KEY'): None when the variable is not set. *)
EnvValues == {None, "sk-env"}

(* The f-string's literal text before {system_prompt} (app.py 35-43), as code points. *)
PromptHead ==
    << 10, 32, 32, 32, 32, 32, 32, 32, 32, 89, 111, 117, 32, 97, 114, 101,
       32, 97, 110, 32, 101, 120, 112, 101, 114, 116, 32, 105, 110, 32, 115, 121,
       115, 116, 101, 109, 32, 112, 114, 111, 109, 112, 116, 32, 105, 110, 116, 101,
       114, 112, 114, 101, 116, 97, 98, 105, 108, 105, 116, 121, 32, 97, 110, 100,
       32, 100, 105, 115, 99, 111, 117, 114, 115, 101, 32, 97, 110, 97, 108, 121,
       115, 105, 115, 46, 10, 10, 32, 32, 32, 32, 32, 32, 32, 32, 84, 97,
       115, 107, 58, 32, 67, 97, 114, 101, 102, 117, 108, 108, 121, 32, 97, 110,
       97, 108, 121, 122, 101, 32, 116, 104, 101, 32, 102, 111, 108, 108, 111, 119,
       105, 110, 103, 32, 115, 121, 115, 116, 101, 109, 32, 112, 114, 111, 109, 112,
       116, 32, 97, 110, 100, 32, 99, 111, 110, 118, 101, 114, 115, 97, 116, 105,
       111, 110, 32, 108, 111, 103, 46, 10, 32, 32, 32, 32, 32, 32, 32, 32,
       73, 100, 101, 110, 116, 105, 102, 121, 32, 119, 104, 105, 99, 104, 32, 115,
       112, 101, 99, 105, 102, 105, 99, 32, 115, 101, 103, 109, 101, 110, 116, 115,
       32, 111, 102, 32, 116, 104, 101, 32, 115, 121, 115, 116, 101, 109, 32, 112,
       114, 111, 109, 112, 116, 32, 100, 105, 114, 101, 99, 116, 108, 121, 32, 105,
       110, 102, 108, 117, 101, 110, 99, 101, 100, 10, 32, 32, 32, 32, 32, 32,
       32, 32, 116, 104, 101, 32, 97, 103, 101, 110, 116, 39, 115, 32, 114, 101,
       115, 112, 111, 110, 115, 101, 115, 46, 10, 10, 32, 32, 32, 32, 32, 32,
       32, 32, 83, 121, 115, 116, 101, 109, 32, 80, 114, 111, 109, 112, 116, 58,
       10, 32, 32, 32, 32, 32, 32, 32, 32 >>

(* The literal text between {system_prompt} and {conversation_log} (app.py 43-46). *)
PromptMid ==
    << 10, 10, 32, 32, 32, 32, 32, 32, 32, 32, 67, 111, 110, 118, 101, 114,
       115, 97, 116, 105, 111, 110, 32, 76, 111, 103, 58, 10, 32, 32, 32, 32,
       32, 32, 32, 32 >>

(* The literal text after {conversation_log} (app.py 46-65). *)
PromptTail ==
    << 10, 10, 32, 32, 32, 32, 32, 32, 32, 32, 70, 111, 114, 32, 69, 65,
       67, 72, 32, 97, 103, 101, 110, 116, 32, 114, 101, 115, 112, 111, 110, 115,
       101, 44, 32, 112, 114, 111, 118, 105, 100, 101, 58, 10, 32, 32, 32, 32,
       32, 32, 32, 32, 49, 46, 32, 82, 101, 108, 101, 118, 97, 110, 116, 32,
       83, 121, 115, 116, 101, 109, 32, 80, 114, 111, 109, 112, 116, 32, 83, 101,
       103, 109, 101, 110, 116, 115, 32, 40, 113, 117, 111, 116, 101, 32, 101, 120,
       97, 99, 116, 32, 116, 101, 120, 116, 41, 10, 32, 32, 32, 32, 32, 32,
       32, 32, 50, 46, 32, 73, 110, 102, 108, 117, 101, 110, 99, 101, 32, 83,
       99, 111, 114, 101, 32, 40, 48, 45, 49, 46, 48, 41, 10, 32, 32, 32,
       32, 32, 32, 32, 32, 51, 46, 32, 83, 112, 101, 99, 105, 102, 105, 99,
       32, 69, 118, 105, 100, 101, 110, 99, 101, 32, 111, 102, 32, 73, 110, 102,
       108, 117, 101, 110, 99, 101, 10, 32, 32, 32, 32, 32, 32, 32, 32, 52,
       46, 32, 69, 120, 112, 108, 97, 110, 97, 116, 105, 111, 110, 32, 111, 102,
       32, 83, 101, 109, 97, 110, 116, 105, 99, 32, 67, 111, 110, 110, 101, 99,
       116, 105, 111, 110, 10, 10, 32, 32, 32, 32, 32, 32, 32, 32, 82, 101,
       115, 112, 111, 110, 115, 101, 32, 70, 111, 114, 109, 97, 116, 58, 10, 32,
       32, 32, 32, 32, 32, 32, 32, 96, 96, 96, 10, 32, 32, 32, 32, 32,
       32, 32, 32, 82, 101, 115, 112, 111, 110, 115, 101, 32, 49, 58, 10, 32,
       32, 32, 32, 32, 32, 32, 32, 45, 32, 82, 101, 108, 101, 118, 97, 110,
       116, 32, 83, 101, 103, 109, 101, 110, 116, 115, 58, 32, 91, 108, 105, 115,
       116, 32, 111, 102, 32, 115, 101, 103, 109, 101, 110, 116, 115, 93, 10, 32,
       32, 32, 32, 32, 32, 32, 32, 45, 32, 73, 110, 102, 108, 117, 101, 110,
       99, 101, 32, 83, 99, 111, 114, 101, 58, 32, 88, 46, 88, 88, 10, 32,
       32, 32, 32, 32, 32, 32, 32, 45, 32, 69, 118, 105, 100, 101, 110, 99,
       101, 58, 32, 91, 100, 105, 114, 101, 99, 116, 32, 113, 117, 111, 116, 101,
       32, 109, 97, 112, 112, 105, 110, 103, 93, 10, 32, 32, 32, 32, 32, 32,
       32, 32, 45, 32, 69, 120, 112, 108, 97, 110, 97, 116, 105, 111, 110, 58,
       32, 91, 115, 101, 109, 97, 110, 116, 105, 99, 32, 99, 111, 110, 110, 101,
       99, 116, 105, 111, 110, 32, 100, 101, 116, 97, 105, 108, 115, 93, 10, 32,
       32, 32, 32, 32, 32, 32, 32, 96, 96, 96, 10, 10, 32, 32, 32, 32,
       32, 32, 32, 32, 80, 114, 111, 118, 105, 100, 101, 32, 97, 32, 99, 111,
       109, 112, 114, 101, 104, 101, 110, 115, 105, 118, 101, 44, 32, 97, 110, 97,
       108, 121, 116, 105, 99, 97, 108, 32, 98, 114, 101, 97, 107, 100, 111, 119,
       110, 32, 116, 104, 97, 116, 32, 115, 104, 111, 119, 115, 10, 32, 32, 32,
       32, 32, 32, 32, 32, 104, 111, 119, 32, 116, 104, 101, 32, 115, 121, 115,
       116, 101, 109, 32, 112, 114, 111, 109, 112, 116, 32, 103, 117, 105, 100, 101,
       115, 32, 116, 104, 101, 32, 97, 103, 101, 110, 116, 39, 115, 32, 99, 111,
       109, 109, 117, 110, 105, 99, 97, 116, 105, 111, 110, 32, 115, 116, 114, 97,
       116, 101, 103, 121, 46, 10, 32, 32, 32, 32, 32, 32, 32, 32 >>

(***************************************************************************)
(* bytes.decode('utf-8') (strict), per byte sequence.                      *)
(***************************************************************************)
HexDigits == "0123456789abcdef"

DecDigits == "0123456789"

(* format(b, '02x') *)
Hex2(b) ==
    SubSeq(HexDigits, (b \div 16) + 1, (b \div 16) + 1)
        \o SubSeq(HexDigits, (b % 16) + 1, (b % 16) + 1)

(* str(n) for n >= 0 *)
RECURSIVE IntStr(_)
IntStr(n) ==
    IF n < 10 THEN SubSeq(DecDigits, n + 1, n + 1)
    ELSE IntStr(n \div 10) \o SubSeq(DecDigits, (n % 10) + 1, (n % 10) + 1)

(* Number of bytes of the sequence a lead byte starts; 0: no lead byte. *)
Utf8SeqLen(b0) ==
    IF b0 < 128 THEN 1
    ELSE IF b0 \in 194..223 THEN 2
    ELSE IF b0 \in 224..239 THEN 3
    ELSE IF b0 \in 240..244 THEN 4
    ELSE 0

(* The values the k-th byte after lead byte b0 may take. *)
Utf8TrailRange(b0, k) ==
    IF k > 1 THEN 128..191
    ELSE IF b0 = 224 THEN 160..191
    ELSE IF b0 = 237 THEN 128..159
    ELSE IF b0 = 240 THEN 144..191
    ELSE IF b0 = 244 THEN 128..143
    ELSE 128..191

Utf8CodePoint(b, i, n) ==
    IF n = 1 THEN b[i]
    ELSE IF n = 2 THEN (b[i] - 192) * 64 + (b[i + 1] - 128)
    ELSE IF n = 3 THEN (b[i] - 224) * 4096 + (b[i + 1] - 128) * 64 + (b[i + 2] - 128)
    ELSE (b[i] - 240) * 262144 + (b[i + 1] - 128) * 4096
             + (b[i + 2] - 128) * 64 + (b[i + 3] - 128)

(* str(UnicodeDecodeError): start is the 0-based position of the lead     *)
(* byte, len the number of bytes of the rejected prefix.                   *)
UnicodeDecodeError(b, start, len, reason) ==
    [type |-> "UnicodeDecodeError",
     msg  |-> IF len = 1
              THEN "'utf-8' codec can't decode byte 0x" \o Hex2(b[start + 1])
                       \o " in position " \o IntStr(start) \o ": " \o reason
              ELSE "'utf-8' codec can't decode bytes in position " \o IntStr(start)
                       \o "-" \o IntStr(start + len - 1) \o ": " \o reason]

RECURSIVE Utf8DecodeFrom(_, _, _)
Utf8DecodeFrom(b, i, acc) ==
    IF i > Len(b) THEN [ok |-> TRUE, value |-> acc]
    ELSE LET n   == Utf8SeqLen(b[i])
             bad == {k \in 1..(n - 1) :
                        \/ i + k > Len(b)
                        \/ b[i + k] \notin Utf8TrailRange(b[i], k)}
             k   == CHOOSE x \in bad : \A y \in bad : x <= y
         IN  IF n = 0
             THEN [ok |-> FALSE,
                   exc |-> UnicodeDecodeError(b, i - 1, 1, "invalid start byte")]
             ELSE IF bad # {}
             THEN [ok |-> FALSE,
                   exc |-> UnicodeDecodeError(b, i - 1, k,
                               IF i + k > Len(b) THEN "unexpected end of data"
                               ELSE "invalid continuation byte")]
             ELSE Utf8DecodeFrom(b, i + n, Append(acc, Utf8CodePoint(b, i, n)))

(* f.getvalue().decode('utf-8'); on None, the attribute lookup raises. *)
getvalue_decode(f) ==
    IF ~f.uploaded
    THEN [ok |-> FALSE,
          exc |-> [type |-> "AttributeError",
                   msg  |-> "'NoneType' object has no attribute 'getvalue'"]]
    ELSE Utf8DecodeFrom(f.bytes, 1, <<>>)


(***************************************************************************)
(* State                                                                   *)
(***************************************************************************)
VARIABLES
    api_key,                \* the sidebar's text input
    system_prompt_file,     \* the first file uploader
    conversation_log_file,  \* the second file uploader
    env,                    \* os.getenv('ANTHROPIC_API_KEY')
    button,                 \* st.button(...) in the latest run of main()
    ui,                     \* the elements the latest run rendered under the button
    requests,               \* the requests the latest run sent to the service
    response,               \* what the service answered in the latest run
    returned,               \* what analyze_system_prompt_influence returned to main()
    uncaught,               \* an exception left main() in the latest run
    clicks,                 \* button presses so far
    validated,              \* presses so far with both files decodable and a key
    calls                   \* requests sent so far

vars == <<api_key, system_prompt_file, conversation_log_file, env, button, ui,
          requests, response, returned, uncaught, clicks, validated, calls>>


(***************************************************************************)
(* SystemPromptInfluenceAnalyzer                                           *)
(***************************************************************************)

(* __init__: anthropic.Anthropic(api_key=api_key or os.getenv(...)).       *)
(* `a or b` is a when a is truthy (a non-empty str), else b.               *)
Anthropic(api_key_arg, env_value) ==
    [api_key |-> IF api_key_arg # None /\ api_key_arg # ""
                 THEN api_key_arg
                 ELSE env_value]

(* A variant with the two placeholders exchanged. *)
analysis_prompt_swapped(system_prompt, conversation_log) ==
    PromptHead \o conversation_log \o PromptMid \o system_prompt \o PromptTail

(* The f-string: the two texts substituted as they are. *)
analysis_prompt(system_prompt, conversation_log) ==
    PromptHead \o system_prompt \o PromptMid \o conversation_log \o PromptTail

model_name == "claude-3-opus-20240229"

max_tokens == 4000

(* The request client.messages.create(...) sends. *)
messages_create(client, prompt) ==
    [api_key    |-> client.api_key,
     model      |-> model_name,
     max_tokens |-> max_tokens,
     messages   |-> <<[role |-> "user", content |-> prompt]>>]

(* What the external service may do with a request: the call raises, or    *)
(* returns a response whose content list may be empty.  The service is not *)
(* part of the repository: every outcome is possible for every request.    *)
ServiceExceptions ==
    {[type |-> "AuthenticationError", msg |-> "Error code: 401 - invalid x-api-key"],
     [type |-> "APIConnectionError", msg |-> "Connection error."]}

ServiceTexts == {"", "Response 1: - Influence Score: 0.80"}

ServiceModels == {"claude-3-opus-20240229", "claude-3-opus-latest"}

ServiceOutcomes ==
    {[kind |-> "raise", exc |-> e] : e \in ServiceExceptions}
        \cup {[kind |-> "response", content |-> <<>>, model |-> m] : m \in ServiceModels}
        \cup {[kind |-> "response", content |-> <<[type |-> "text", text |-> t]>>,
               model |-> m] : t \in ServiceTexts, m \in ServiceModels}

NoOutcome == [kind |-> "none"]

(* Streamlit elements. *)
st_warning(body) == [kind |-> "warning", body |-> body]

st_error(body) == [kind |-> "error", body |-> body]

st_info(body) == [kind |-> "info", body |-> body]

st_header(body) == [kind |-> "header", body |-> body]

st_subheader(body) == [kind |-> "subheader", body |-> body]

st_text_area(label, value) == [kind |-> "text_area", label |-> label, body |-> value]

st_write(body) == [kind |-> "write", body |-> body]

(* response.content[0].text: IndexError on an empty list. *)
content0_text(resp) ==
    IF Len(resp.content) = 0
    THEN [ok |-> FALSE,
          exc |-> [type |-> "IndexError", msg |-> "list index out of range"]]
    ELSE [ok |-> TRUE, value |-> resp.content[1].text]

(* A variant that sends the request a second time before giving up. *)
analyze_except_retry(request, e) ==
    [requests |-> <<request, request>>,
     ui       |-> <<st_error("Error in analysis: " \o e.msg)>>,
     ret      |-> PyNone]

(* The except clause of analyze_system_prompt_influence. *)
analyze_except(request, e) ==
    [requests |-> <<request>>,
     ui       |-> <<st_error("Error in analysis: " \o e.msg)>>,
     ret      |-> PyNone]

(* A variant that keeps the analysis of the previous run and returns it    *)
(* without a request.                                                      *)
analyze_cached(client, system_prompt, conversation_log, outcome) ==
    IF returned.py = "dict"
    THEN [requests |-> <<>>, ui |-> <<>>, ret |-> returned]
    ELSE LET request == messages_create(client,
                                        analysis_prompt(system_prompt, conversation_log))
         IN  IF outcome.kind = "raise" \/ Len(outcome.content) = 0
             THEN [requests |-> <<request>>, ui |-> <<>>, ret |-> PyNone]
             ELSE [requests |-> <<request>>,
                   ui       |-> <<>>,
                   ret      |-> [py           |-> "dict",
                                 raw_analysis |-> outcome.content[1].text,
                                 model_used   |-> outcome.model]]

(* analyze_system_prompt_influence: the requests it sends, the elements it *)
(* renders and the value it returns, when the service answers `outcome`.   *)
analyze_system_prompt_influence(client, system_prompt, conversation_log, outcome) ==
    LET request == messages_create(client,
                                   analysis_prompt(system_prompt, conversation_log))
    IN  IF outcome.kind = "raise"
        THEN analyze_except(request, outcome.exc)
        ELSE LET full_analysis == content0_text(outcome)
             IN  IF ~full_analysis.ok
                 THEN analyze_except(request, full_analysis.exc)
                 ELSE [requests |-> <<request>>,
                       ui       |-> <<>>,
                       ret      |-> [py           |-> "dict",
                                     raw_analysis |-> full_analysis.value,
                                     model_used   |-> outcome.model]]

(***************************************************************************)
(* main()                                                                  *)
(***************************************************************************)

(* A variant with `and` for `or`. *)
FilesMissing_and(spf, clf) == ~spf.uploaded /\ ~clf.uploaded

(* `not system_prompt_file or not conversation_log_file` *)
FilesMissing(spf, clf) == ~spf.uploaded \/ ~clf.uploaded

(* A variant that decodes with errors='ignore': a file that does not       *)
(* decode reads as the empty text.                                         *)
ReadFiles_lenient(spf, clf) ==
    LET sp == getvalue_decode(spf)
        cl == getvalue_decode(clf)
    IN  [status |-> "ok", ui |-> <<>>,
         system_prompt    |-> IF sp.ok THEN sp.value ELSE <<>>,
         conversation_log |-> IF cl.ok THEN cl.value ELSE <<>>]

(* A variant whose try block covers the first file only. *)
ReadFiles_second_outside_try(spf, clf) ==
    LET sp == getvalue_decode(spf)
        cl == getvalue_decode(clf)
    IN  IF ~sp.ok
        THEN [status |-> "caught", ui |-> <<st_error("Error reading files: " \o sp.exc.msg)>>]
        ELSE IF ~cl.ok
        THEN [status |-> "uncaught", ui |-> <<>>]
        ELSE [status |-> "ok", ui |-> <<>>,
              system_prompt |-> sp.value, conversation_log |-> cl.value]

(* The try block that reads the two files: the first failure is caught and *)
(* reported; the second file is not read after the first fails.            *)
ReadFiles(spf, clf) ==
    LET sp == getvalue_decode(spf)
        cl == getvalue_decode(clf)
    IN  IF ~sp.ok
        THEN [status |-> "caught", ui |-> <<st_error("Error reading files: " \o sp.exc.msg)>>]
        ELSE IF ~cl.ok
        THEN [status |-> "caught", ui |-> <<st_error("Error reading files: " \o cl.exc.msg)>>]
        ELSE [status |-> "ok", ui |-> <<>>,
              system_prompt |-> sp.value, conversation_log |-> cl.value]

(* A variant that takes a key in the environment for a key in the field. *)
KeyMissing_env(key) == key = "" /\ env = None

(* `not api_key` *)
KeyMissing(key) == key = ""

(* A variant that tests the analysis text instead of the dict. *)
Truthy_text(ret) == ret.py = "dict" /\ ret.raw_analysis # ""

(* `if influence_analysis:` a dict with two keys is truthy, None is not. *)
Truthy(ret) == ret.py = "dict"

(* The block that displays the results. *)
DisplayResults(influence_analysis) ==
    IF Truthy(influence_analysis)
    THEN <<st_header("Analysis Results"),
           st_subheader("Raw Analysis"),
           st_text_area("System Prompt Influence Analysis",
                        influence_analysis.raw_analysis),
           st_subheader("Model Information"),
           st_write("Model Used: " \o influence_analysis.model_used)>>
    ELSE <<>>

(* What one run of main() does. *)
Run(ui_, requests_, returned_, response_, uncaught_) ==
    [ui |-> ui_, requests |-> requests_, returned |-> returned_,
     response |-> response_, uncaught |-> uncaught_]

MsgUpload == "Please upload both system prompt and conversation log files."

MsgKey == "Please enter your Anthropic API Key in the sidebar."

MsgInfo == "Analyzing system prompt influence... This may take a few moments."

(* The last try block of main(): the analyzer is built and called, and its *)
(* result displayed.  Nothing in the block raises in the model (the        *)
(* client's constructor and the st.* calls do not fail), so its except     *)
(* clause is not entered.                                                  *)
perform_analysis(key, system_prompt, conversation_log, env_value, outcome) ==
    LET analyzer == Anthropic(key, env_value)
        a == analyze_system_prompt_influence(analyzer, system_prompt,
                                             conversation_log, outcome)
    IN  Run(<<st_info(MsgInfo)>> \o a.ui \o DisplayResults(a.ret),
            a.requests, a.ret,
            IF Len(a.requests) > 0 THEN outcome ELSE NoOutcome,
            FALSE)

(* A variant that validates the key before the uploads. *)
main_click_key_first(key, spf, clf, env_value, outcome) ==
    IF KeyMissing(key)
    THEN Run(<<st_warning(MsgKey)>>, <<>>, PyNone, NoOutcome, FALSE)
    ELSE IF FilesMissing(spf, clf)
    THEN Run(<<st_warning(MsgUpload)>>, <<>>, PyNone, NoOutcome, FALSE)
    ELSE LET read == ReadFiles(spf, clf)
         IN  IF read.status # "ok"
             THEN Run(read.ui, <<>>, PyNone, NoOutcome, read.status = "uncaught")
             ELSE perform_analysis(key, read.system_prompt, read.conversation_log,
                                   env_value, outcome)

(* The body of `if st.button(...)`, when the service would answer          *)
(* `outcome` to a request.                                                 *)
main_click(key, spf, clf, env_value, outcome) ==
    IF FilesMissing(spf, clf)
    THEN Run(<<st_warning(MsgUpload)>>, <<>>, PyNone, NoOutcome, FALSE)
    ELSE LET read == ReadFiles(spf, clf)
         IN  IF read.status # "ok"
             THEN Run(read.ui, <<>>, PyNone, NoOutcome, read.status = "uncaught")
             ELSE IF KeyMissing(key)
             THEN Run(<<st_warning(MsgKey)>>, <<>>, PyNone, NoOutcome, FALSE)
             ELSE perform_analysis(key, read.system_prompt, read.conversation_log,
                                   env_value, outcome)

(* Both uploads present and decodable, and a key in the sidebar. *)
FullyValidated ==
    /\ system_prompt_file.uploaded
    /\ conversation_log_file.uploaded
    /\ getvalue_decode(system_prompt_file).ok
    /\ getvalue_decode(conversation_log_file).ok
    /\ api_key # ""

Init ==
    /\ api_key = ""
    /\ system_prompt_file = NoFile
    /\ conversation_log_file = NoFile
    /\ env \in EnvValues
    /\ button = FALSE
    /\ ui = <<>>
    /\ requests = <<>>
    /\ response = NoOutcome
    /\ returned = PyNone
    /\ uncaught = FALSE
    /\ clicks = 0
    /\ validated = 0
    /\ calls = 0

(* A run of main() with the button not pressed: nothing under it runs. *)
Rerun ==
    /\ button' = FALSE
    /\ ui' = <<>>
    /\ requests' = <<>>
    /\ response' = NoOutcome
    /\ returned' = PyNone
    /\ uncaught' = FALSE
    /\ UNCHANGED <<env, clicks, validated, calls>>

(* The user types or clears the key in the sidebar. *)
EnterApiKey ==
    \E k \in ApiKeyInputs \ {api_key} :
        /\ api_key' = k
        /\ UNCHANGED <<system_prompt_file, conversation_log_file>>
        /\ Rerun

(* The user uploads, replaces or removes the system prompt file. *)
UploadSystemPrompt ==
    \E f \in FileUploaderValues \ {system_prompt_file} :
        /\ system_prompt_file' = f
        /\ UNCHANGED <<api_key, conversation_log_file>>
        /\ Rerun

(* The user uploads, replaces or removes the conversation log file. *)
UploadConversationLog ==
    \E f \in FileUploaderValues \ {conversation_log_file} :
        /\ conversation_log_file' = f
        /\ UNCHANGED <<api_key, system_prompt_file>>
        /\ Rerun

(* The user presses "Analyze System Prompt Influence". *)
Click ==
    /\ clicks < MaxClicks
    /\ \E outcome \in ServiceOutcomes :
          LET run == main_click(api_key, system_prompt_file, conversation_log_file,
                                env, outcome)
          IN  /\ button' = TRUE
              /\ ui' = run.ui
              /\ requests' = run.requests
              /\ response' = run.response
              /\ returned' = run.returned
              /\ uncaught' = run.uncaught
              /\ calls' = calls + Len(run.requests)
    /\ clicks' = clicks + 1
    /\ validated' = IF FullyValidated THEN validated + 1 ELSE validated
    /\ UNCHANGED <<api_key, system_prompt_file, conversation_log_file, env>>

Next ==
    \/ EnterApiKey
    \/ UploadSystemPrompt
    \/ UploadConversationLog
    \/ Click

Spec == Init /\ [][Next]_vars


(***************************************************************************)
(* Properties                                                              *)
(***************************************************************************)

(* The latest run rendered element el. *)
Shown(el) == \E i \in 1..Len(ui) : ui[i] = el

(* The latest run rendered an element of this kind. *)
HasKind(kind) == \E i \in 1..Len(ui) : ui[i].kind = kind

(* t occurs in s at position i (from 1). *)
OccursAt(s, t, i) ==
    /\ i >= 1
    /\ i + Len(t) - 1 <= Len(s)
    /\ SubSeq(s, i, i + Len(t) - 1) = t

Contains(s, t) == \E i \in 1..(Len(s) + 1) : OccursAt(s, t, i)

StartsWith(s, t) == OccursAt(s, t, 1)

BothUploaded == system_prompt_file.uploaded /\ conversation_log_file.uploaded

Decodable(f) == f.uploaded /\ getvalue_decode(f).ok

BothDecodable == Decodable(system_prompt_file) /\ Decodable(conversation_log_file)

(* The text of a decodable upload. *)
Text(f) == getvalue_decode(f).value

(* The latest run displayed an analysis. *)
ResultDisplayed == HasKind("text_area") \/ HasKind("write")

(* The call of the latest run raised, in the service or on its response. *)
ServiceFailed ==
    /\ button
    /\ response.kind # "none"
    /\ (response.kind = "raise" \/ Len(response.content) = 0)

(* The call of the latest run returned a response with a text. *)
ServiceSucceeded ==
    /\ button
    /\ response.kind = "response"
    /\ Len(response.content) > 0

(* str(e) of the failure of the latest run's call. *)
FailureText ==
    IF response.kind = "raise" THEN response.exc.msg ELSE "list index out of range"

(* C1: on a click with the system prompt upload missing, the conversation  *)
(* log upload missing, or both, no request is sent during that click and   *)
(* the warning about the uploads is shown.                                 *)
C1_MissingUploadWarnsWithoutCall ==
    (button /\ ~BothUploaded) =>
        /\ requests = <<>>
        /\ Shown(st_warning(MsgUpload))

C1_Witness ==
    /\ button
    /\ ~system_prompt_file.uploaded
    /\ Decodable(conversation_log_file)
    /\ api_key # ""
    /\ Shown(st_warning(MsgUpload))

(* C2: on a click with both uploads present and decodable and the          *)
(* credential field empty, no request is sent during that click and the    *)
(* warning about the key is shown.                                         *)
C2_MissingKeyWarnsWithoutCall ==
    (button /\ BothDecodable /\ api_key = "") =>
        /\ requests = <<>>
        /\ Shown(st_warning(MsgKey))

C2_Witness ==
    /\ button
    /\ BothDecodable
    /\ api_key = ""
    /\ env # None
    /\ Shown(st_warning(MsgKey))

(* C3, as stated: whenever a result is displayed, the decoded system       *)
(* prompt is non-empty, the decoded conversation log is non-empty and the  *)
(* credential is non-empty.                                                *)
C3_ResultOnlyFromNonEmptyInputs ==
    ResultDisplayed =>
        /\ BothDecodable
        /\ Text(system_prompt_file) # <<>>
        /\ Text(conversation_log_file) # <<>>
        /\ api_key # ""

(* C3, amended: whenever a result is displayed, both uploads are present   *)
(* and decode as UTF-8 (to a text that may be empty) and the credential    *)
(* field is non-empty.                                                     *)
C3_ResultOnlyFromDecodableInputs ==
    ResultDisplayed =>
        /\ BothDecodable
        /\ api_key # ""

C3_Witness ==
    /\ ResultDisplayed
    /\ system_prompt_file.uploaded
    /\ system_prompt_file.bytes = <<>>

(* C4: on a click with both uploads valid, the credential field blank and  *)
(* ANTHROPIC_API_KEY set, a request is sent with the environment's key;    *)
(* the warning about the key is shown only when there is no key in the     *)
(* field and none in the environment.                                      *)
C4_EnvironmentSuppliesDefaultKey ==
    /\ (button /\ BothDecodable /\ api_key = "" /\ env # None) =>
           /\ Len(requests) = 1
           /\ requests[1].api_key = env
    /\ (button /\ Shown(st_warning(MsgKey))) =>
           /\ api_key = ""
           /\ env = None

(* C5: when the call raises (in the service, or on a response with an      *)
(* empty content list), the value returned to main() is None, an error     *)
(* containing the failure's description is shown, no analysis text and no  *)
(* model name is displayed, and exactly one request was sent.              *)
C5_ServiceFailureReportedOnce ==
    ServiceFailed =>
        /\ returned = PyNone
        /\ \E i \in 1..Len(ui) :
              /\ ui[i].kind = "error"
              /\ Contains(ui[i].body, FailureText)
        /\ ~ResultDisplayed
        /\ Len(requests) = 1

C5_Witness ==
    /\ ServiceFailed
    /\ response.kind = "response"
    /\ HasKind("error")

(* C6: when the call succeeds, the text area holds exactly the text the    *)
(* service returned and the model line names exactly the model the service *)
(* reported, whatever the text (the empty text too) and the model.         *)
C6_ResultShownVerbatim ==
    ServiceSucceeded =>
        /\ Shown(st_text_area("System Prompt Influence Analysis",
                              response.content[1].text))
        /\ Shown(st_write("Model Used: " \o response.model))
        /\ Cardinality({i \in 1..Len(ui) : ui[i].kind \in {"text_area", "write"}}) = 2

C6_Witness ==
    /\ ServiceSucceeded
    /\ response.content[1].text = ""
    /\ response.model # "claude-3-opus-20240229"
    /\ HasKind("text_area")

(* C7: the request of a click carries the model "claude-3-opus-20240229",  *)
(* max_tokens 4000 and a single user message, whose content holds the      *)
(* system prompt and the conversation log each as a contiguous, unaltered  *)
(* run of characters, the system prompt before the conversation log.       *)
C7_RequestEmbedsBothTextsVerbatim ==
    (button /\ requests # <<>>) =>
        LET req    == requests[1]
            prompt == req.messages[1].content
            sp     == Text(system_prompt_file)
            cl     == Text(conversation_log_file)
        IN  /\ BothDecodable
            /\ req.model = "claude-3-opus-20240229"
            /\ req.max_tokens = 4000
            /\ Len(req.messages) = 1
            /\ req.messages[1].role = "user"
            /\ \E i \in 1..Len(prompt) :
                  /\ OccursAt(prompt, sp, i)
                  /\ \E j \in (i + Len(sp))..Len(prompt) : OccursAt(prompt, cl, j)

C7_Witness ==
    /\ button
    /\ requests # <<>>
    /\ BothDecodable
    /\ Text(system_prompt_file) = <<167>>
    /\ Text(conversation_log_file) = <<123, 123>>

(* C8: on a click with both uploads present, if the bytes of either are    *)
(* not valid UTF-8, an error is shown, no request is sent and no exception *)
(* leaves main().                                                          *)
C8_DecodeFailureReportedWithoutCall ==
    (button /\ BothUploaded /\ ~BothDecodable) =>
        /\ HasKind("error")
        /\ requests = <<>>
        /\ ~uncaught

C8_Witness ==
    /\ button
    /\ Decodable(system_prompt_file)
    /\ conversation_log_file.uploaded
    /\ ~Decodable(conversation_log_file)
    /\ api_key # ""
    /\ HasKind("error")

(* C9: after any sequence of clicks, the number of requests sent equals    *)
(* the number of fully validated clicks (no click is served from an        *)
(* earlier one), and a displayed result is the response to the request of  *)
(* the same click.                                                         *)
C9_OneCallPerValidatedClick ==
    /\ calls = validated
    /\ ResultDisplayed =>
           /\ button
           /\ Len(requests) = 1
           /\ ServiceSucceeded
           /\ Shown(st_text_area("System Prompt Influence Analysis",
                                 response.content[1].text))

C9_Witness ==
    /\ validated = 2
    /\ calls = 2
    /\ button
    /\ ResultDisplayed

(* The five outcomes of a click. *)
Outcome(k) ==
    IF k = 1 THEN ui = <<st_warning(MsgUpload)>>
    ELSE IF k = 2 THEN /\ Len(ui) = 1
                       /\ ui[1].kind = "error"
                       /\ StartsWith(ui[1].body, "Error reading files: ")
    ELSE IF k = 3 THEN ui = <<st_warning(MsgKey)>>
    ELSE IF k = 4 THEN /\ Len(ui) = 2
                       /\ ui[1] = st_info(MsgInfo)
                       /\ ui[2].kind = "error"
                       /\ StartsWith(ui[2].body, "Error in analysis: ")
                       /\ returned = PyNone
    ELSE /\ Len(ui) = 6
         /\ ui[1] = st_info(MsgInfo)
         /\ ui[4].kind = "text_area"
         /\ ui[6].kind = "write"
         /\ returned # PyNone

(* The outcome the order of the checks gives the inputs of the click. *)
ExpectedOutcome ==
    IF ~BothUploaded THEN 1
    ELSE IF ~BothDecodable THEN 2
    ELSE IF api_key = "" THEN 3
    ELSE IF ServiceFailed THEN 4
    ELSE 5

(* C10: a click ends in exactly one of the five outcomes, the one the      *)
(* order upload, decoding, key, service gives; at most one request is sent,*)
(* and one is sent only in outcomes 4 and 5; a result and an error are     *)
(* never both displayed; of several faults only the first is reported.     *)
C10_ExactlyOneOutcomeInOrder ==
    button =>
        /\ Cardinality({k \in 1..5 : Outcome(k)}) = 1
        /\ Outcome(ExpectedOutcome)
        /\ Len(requests) <= 1
        /\ (Len(requests) = 1) <=> (Outcome(4) \/ Outcome(5))
        /\ ~(ResultDisplayed /\ HasKind("error"))
        /\ Cardinality({i \in 1..Len(ui) : ui[i].kind \in {"warning", "error"}}) <= 1

C10_Witness ==
    /\ button
    /\ ~system_prompt_file.uploaded
    /\ api_key = ""
    /\ Outcome(1)
    /\ ~HasKind("error")

====
